---- MODULE Spec2Model ----
(***************************************************************************)
(* Dispatch core of the dynamic compression library (package glidepack):   *)
(* the Manager (SubmitWithPolicy, createJob, freeJobID, getHandler) and    *)
(* the four handlers (QAT, IAA, ISAL, software default) of strategy.go.    *)
(*                                                                         *)
(* The codec engines (qatzip, ixl, isal, gzip, lz4, zstd) are outside the  *)
(* repository.  Each call into an engine whose error result the code       *)
(* tests is an input of the step: an "engine outcome" record o with        *)
(*   o.setup : what Ready() and the constructor / option calls of the      *)
(*             Request did (at most one of them fails)                     *)
(*   o.io    : what the Write / Read call did                              *)
(*   o.close : what the Close call of a Release did                        *)
(* A panic (nil dereference) and a goroutine parked forever on a mutex     *)
(* are outcomes of a call as well: they end the caller.                    *)
(***************************************************************************)
EXTENDS Integers, Sequences, FiniteSets, TLC

(***************************************************************************)
(* Bounds of the model.                                                    *)
(***************************************************************************)
\* SubmitWithPolicy creates at most this many Jobs in the general specification
MaxJobs == 2
\* ... and at most this many in the specifications pinned to one backend
MaxPinnedJobs == 10
\* longest strategy list a policy returns
MaxPolicyLen == 1

(***************************************************************************)
(* Program constants.                                                      *)
(***************************************************************************)
MAX_QAT_BINDINGS == 8
MAX_IAA_BINDINGS == 8
\* threshold of BufferSizePolicy
SizeThreshold == 1500

\* type Algorithm
DEFLATE == "deflate"
GZIP == "gzip"
LZ4 == "lz4"
ZSTD == "zstd"
Algorithms == {DEFLATE, GZIP, LZ4, ZSTD}

IAA_ALGORITHMS == {DEFLATE, GZIP}
QAT_ALGORITHMS == {DEFLATE, GZIP, ZSTD}
ISAL_ALGORITHMS == {GZIP}
DEFAULT_ALGORITHMS == {DEFLATE, LZ4, GZIP, ZSTD}

\* type QatMode
DIRECT == "DIRECT"
STREAM == "STREAM"

\* type Direction
COMPRESS == "COMPRESS"
DECOMPRESS == "DECOMPRESS"

\* type StrategyType; BOGUS stands for every int outside the four constants
QAT == "QAT"
ISAL == "ISAL"
IAA == "IAA"
DEFAULT == "DEFAULT"
BOGUS == "BOGUS"
StrategyValues == {QAT, ISAL, IAA, DEFAULT, BOGUS}

IsValid(s) == s \in {QAT, ISAL, IAA, DEFAULT}

strategyBank == <<QAT, ISAL, IAA, DEFAULT>>

\* error identities
NoErr == "nil"
EOF == "io.EOF"
ErrNotAvailable == "ErrNotAvailable"
ErrNotInstalled == "ErrNotInstalled"
ErrJobNotFound == "ErrJobNotFound"
ErrUnsupported == "ErrUnsupported"
errNoWorkingStrategies == "errNoWorkingStrategies"
\* errors.New("invalid strategy given by the policy")
errInvalidStrategy == "invalid strategy given by the policy"
\* errors.New("could not find the job") of the IAA and ISAL Release
errCouldNotFind == "could not find the job"
\* fmt.Errorf("unsupported (de)compression algorithm") of the default handler
errDefaultAlgorithm == "unsupported algorithm"
\* an error value handed back by a codec engine
\* var errClosed of the facades
errClosed == "writer already closed"
ErrEngine == "engine error"

\* a nil pointer / nil interface
NIL == "nil"
\* the io.Writer of a Writer facade and the io.Reader of a Reader facade
SINK == "sink"
SOURCE == "source"
\* a second sink and a second source, for Reset
SINK2 == "sink2"
SOURCE2 == "source2"

(***************************************************************************)
(* Engine outcomes.                                                        *)
(***************************************************************************)
\* A Request makes its engine calls in the order setup, io, and a Release that
\* follows makes the close call; a call after the first failed one is not made,
\* so an outcome names the first call that fails, if any.
OutcomeOf(setup, io, close) == [setup |-> setup, io |-> io, close |-> close]

Outcomes(dir) ==
    {OutcomeOf(f, "ok", "ok") : f \in {"notReady", "ctorFail", "applyFail", "fmtFail"}}
    \cup {OutcomeOf("ok", "fail", "ok")}
    \cup {OutcomeOf("ok", "ok", c) : c \in {"ok", "fail"}}
    \cup (IF dir = DECOMPRESS THEN {OutcomeOf("ok", "eof", c) : c \in {"ok", "fail"}} ELSE {})

\* bytes an engine reports after a Write / Read that failed part-way
PartialN == 1

\* maps as functions over a finite set of keys
MapPut(m, k, v) == [x \in (DOMAIN m) \cup {k} |-> IF x = k THEN v ELSE m[x]]
MapDel(m, k) == [x \in (DOMAIN m) \ {k} |-> m[x]]
EmptyMap == [x \in {} |-> NIL]

\* func contains(slice, algorithm)
contains(slice, algorithm) == algorithm \in slice

\* the (n, err) an engine's Write / Read hands back
EngineIO(job, o) ==
    CASE o.io = "ok" -> [n |-> job.size, err |-> NoErr]
      [] o.io = "eof" -> [n |-> 0, err |-> EOF]
      [] OTHER -> [n |-> PartialN, err |-> ErrEngine]

\* the error an engine's Close hands back
EngineClose(o) == IF o.close = "ok" THEN NoErr ELSE ErrEngine

\* result of a Request: the handler's state after it, (n, err), whether the
\* call ended in a panic or parked on a mutex instead of returning, and whether
\* it constructed a new engine session (writer or reader) for the Job
Ret(st, n, err) ==
    [st |-> st, n |-> n, err |-> err, panic |-> FALSE, blocked |-> FALSE, created |-> FALSE]
Panic(st) ==
    [st |-> st, n |-> 0, err |-> NoErr, panic |-> TRUE, blocked |-> FALSE, created |-> FALSE]
Blocked(st) ==
    [st |-> st, n |-> 0, err |-> NoErr, panic |-> FALSE, blocked |-> TRUE, created |-> FALSE]

\* the Request constructed a session before it returned r
Made(r) == [r EXCEPT !.created = TRUE]

(***************************************************************************)
(* DefaultHandler: stateless.                                              *)
(***************************************************************************)
DefaultRequest(st, job, o) ==
    IF ~contains(DEFAULT_ALGORITHMS, job.a) THEN Ret(st, 0, ErrUnsupported)
    ELSE IF job.dir = COMPRESS THEN
        IF job.a \in {GZIP, LZ4, ZSTD} THEN
            \* gzip.NewWriterLevel, zstd.NewWriter or the lz4 Apply failed
            IF \/ job.a \in {GZIP, ZSTD} /\ o.setup = "ctorFail"
               \/ job.a = LZ4 /\ o.setup = "applyFail"
            THEN Ret(st, 0, ErrUnsupported)
            ELSE IF o.io # "ok" THEN Made(Ret(st, EngineIO(job, o).n, EngineIO(job, o).err))
            ELSE IF o.close = "fail" THEN Made(Ret(st, job.size, ErrEngine))
            ELSE Made(Ret(st, job.size, NoErr))
        ELSE Ret(st, 0, errDefaultAlgorithm)
    ELSE
        IF job.a \in {GZIP, ZSTD} THEN
            IF o.setup = "ctorFail" THEN Ret(st, 0, ErrEngine)
            ELSE IF o.io # "ok" THEN Made(Ret(st, EngineIO(job, o).n, EngineIO(job, o).err))
            ELSE IF job.a = GZIP /\ o.close = "fail" THEN Made(Ret(st, job.size, ErrEngine))
            ELSE Made(Ret(st, job.size, NoErr))
        ELSE IF job.a = LZ4 THEN
            Made(Ret(st, EngineIO(job, o).n, EngineIO(job, o).err))
        ELSE Ret(st, 0, errDefaultAlgorithm)

DefaultRelease(st, id, o) == [st |-> st, err |-> NoErr, blocked |-> FALSE]

(***************************************************************************)
(* QatHandler: st is the jobs map, JobID -> QATJob.                        *)
(***************************************************************************)
\* TODO in the source: always true
QatReady == TRUE

\* newQatJob, line 578: len(h.jobs) >= MAX_QAT_BINDINGS
QatPoolFull(st) == Cardinality(DOMAIN st) >= MAX_QAT_BINDINGS

\* newQatJob, lines 585-599: qatzip.NewReader or qatzip.NewQzBinding returns an error
QatCtorFails(job, mode, o) ==
    /\ o.setup = "ctorFail"
    /\ \/ mode = DIRECT /\ job.w = NIL /\ job.r # NIL
       \/ mode = STREAM

\* newQatJob, lines 601-608: the QATJob
QatJobOf(job, mode) ==
    [mode |-> mode,
     w |-> IF mode = DIRECT /\ job.w # NIL THEN job.w ELSE NIL,
     r |-> IF mode = DIRECT /\ job.w = NIL /\ job.r # NIL THEN job.r ELSE NIL,
     job |-> job.id]

\* newQatJob, mode DIRECT or STREAM; isNil: it returns a nil *QATJob
newQatJob(st, job, mode, o) ==
    IF QatPoolFull(st)
    THEN [st |-> st, isNil |-> TRUE, err |-> ErrNotAvailable]
    ELSE IF QatCtorFails(job, mode, o)
    THEN [st |-> st, isNil |-> TRUE, err |-> ErrEngine]
    ELSE [st |-> MapPut(st, job.id, QatJobOf(job, mode)), isNil |-> FALSE, err |-> NoErr]

\* the Write / Read part of QatHandler.Request (lines 482-503)
QatIO(st, job, o) ==
    IF job.dir = COMPRESS THEN
        \* Write: any error, the sink's included, is returned with n = 0
        IF o.io # "ok" THEN Ret(st, 0, EngineIO(job, o).err) ELSE Ret(st, job.size, NoErr)
    ELSE
        IF o.io = "fail" THEN Ret(st, 0, ErrEngine)
        ELSE Ret(st, EngineIO(job, o).n, EngineIO(job, o).err)

QatRequest(st, job, o) ==
    IF ~QatReady THEN Ret(st, 0, ErrNotInstalled)
    ELSE IF ~contains(QAT_ALGORITHMS, job.a) THEN Ret(st, 0, ErrUnsupported)
    ELSE IF job.id \in DOMAIN st THEN QatIO(st, job, o)
    ELSE LET nj == newQatJob(st, job, DIRECT, o) IN
         \* qat.w / qat.r is read before err is looked at
         IF nj.isNil THEN Panic(nj.st)
         ELSE IF o.setup = "applyFail" THEN Made(Ret(nj.st, 0, ErrUnsupported))
         ELSE IF job.a = GZIP /\ o.setup = "fmtFail" THEN Made(Ret(nj.st, 0, ErrEngine))
         ELSE Made(QatIO(nj.st, job, o))

\* findJob: the ids of the QATJobs whose job has this id
findJob(st, id) == {k \in DOMAIN st : st[k].job = id}

QatRelease(st, id, o) ==
    IF findJob(st, id) = {} THEN [st |-> st, err |-> ErrJobNotFound, blocked |-> FALSE]
    ELSE LET q == st[CHOOSE k \in findJob(st, id) : TRUE]
             \* job.w.Close(), job.r.Close() or job.b.Close()
             err == IF q.mode = DIRECT /\ q.w = NIL /\ q.r = NIL THEN NoErr ELSE EngineClose(o)
         IN IF err # NoErr THEN [st |-> st, err |-> err, blocked |-> FALSE]
            ELSE [st |-> MapDel(st, id), err |-> NoErr, blocked |-> FALSE]

(***************************************************************************)
(* IAAHandler: st = [jobs, readjobs : sets of JobID holding a session,     *)
(*                   lock : jobsLock is held].                             *)
(***************************************************************************)
IaaRequest(st, job, o) ==
    IF o.setup = "notReady" THEN Ret(st, 0, ErrNotInstalled)
    ELSE IF ~contains(IAA_ALGORITHMS, job.a) THEN Ret(st, 0, ErrUnsupported)
    ELSE IF st.lock THEN Blocked(st)
    ELSE IF Cardinality(st.jobs) >= MAX_IAA_BINDINGS THEN Ret(st, 0, ErrNotAvailable)
    ELSE IF job.dir = COMPRESS THEN
        \* NewDeflateWriter failed: returns with jobsLock held
        IF job.a = DEFLATE /\ o.setup = "ctorFail"
        THEN Ret([st EXCEPT !.lock = TRUE], 0, ErrEngine)
        ELSE Made(Ret([st EXCEPT !.jobs = @ \cup {job.id}],
                      EngineIO(job, o).n, EngineIO(job, o).err))
    ELSE
        \* ixl.NewInflate(job.r) on every call, whether readjobs has the id or not;
        \* NewInflate failed: returns with jobsLock held
        IF o.setup = "ctorFail"
        THEN Ret([st EXCEPT !.lock = TRUE], 0, ErrEngine)
        ELSE Made(Ret([st EXCEPT !.readjobs = @ \cup {job.id}],
                      EngineIO(job, o).n, EngineIO(job, o).err))

IaaRelease(st, id, o) ==
    IF id \notin st.jobs THEN [st |-> st, err |-> errCouldNotFind, blocked |-> FALSE]
    ELSE IF st.lock THEN [st |-> st, err |-> NoErr, blocked |-> TRUE]
    ELSE [st |-> [st EXCEPT !.jobs = @ \ {id}], err |-> EngineClose(o), blocked |-> FALSE]

(***************************************************************************)
(* ISALHandler: st = [jobs, readjobs : sets of JobID holding a session].   *)
(***************************************************************************)
IsalRequest(st, job, o) ==
    IF o.setup = "notReady" THEN Ret(st, 0, ErrNotInstalled)
    ELSE IF ~contains(ISAL_ALGORITHMS, job.a) THEN Ret(st, 0, ErrUnsupported)
    ELSE IF job.dir = COMPRESS THEN
        IF job.id \notin st.jobs /\ o.setup = "ctorFail" THEN Ret(st, 0, ErrUnsupported)
        ELSE LET r == Ret([st EXCEPT !.jobs = @ \cup {job.id}],
                          EngineIO(job, o).n, EngineIO(job, o).err)
             IN IF job.id \in st.jobs THEN r ELSE Made(r)
    ELSE
        IF job.id \notin st.readjobs /\ o.setup = "ctorFail" THEN Ret(st, 0, ErrEngine)
        ELSE LET r == Ret([st EXCEPT !.readjobs = @ \cup {job.id}],
                          EngineIO(job, o).n, EngineIO(job, o).err)
             IN IF job.id \in st.readjobs THEN r ELSE Made(r)

IsalRelease(st, id, o) ==
    IF id \notin st.jobs /\ id \notin st.readjobs
    THEN [st |-> st, err |-> errCouldNotFind, blocked |-> FALSE]
    ELSE [st |-> [st EXCEPT !.jobs = @ \ {id}, !.readjobs = @ \ {id}],
          err |-> EngineClose(o), blocked |-> FALSE]

(***************************************************************************)
(* Policy.  A PolicyFunc is modelled by the list it returns for each       *)
(* buffer size.                                                            *)
(***************************************************************************)
\* len(p) of a call: one size on each side of the threshold
BufferSizes == {SizeThreshold - 1, SizeThreshold}

\* the sizes a policy is defined on: those, and two sizes well off the threshold
\* (TestMultipleStrategyWrites writes 100 bytes, then the rest of some 2000)
PolicySizes == BufferSizes \cup {100, 1900}

\* BufferSizePolicy with the two lists exchanged
BufferSizePolicyExchanged(params) ==
    IF params.BufferSize < SizeThreshold THEN <<QAT, IAA, ISAL>> ELSE <<ISAL, IAA, QAT>>

\* BufferSizePolicy as package dcl has it: the threshold is 65536
BufferSizePolicyDcl(params) ==
    IF params.BufferSize < 65536 THEN <<ISAL, IAA, QAT>> ELSE <<QAT, IAA, ISAL>>

BufferSizePolicy(params) ==
    IF params.BufferSize < SizeThreshold THEN <<ISAL, IAA, QAT>> ELSE <<QAT, IAA, ISAL>>

GetDefaultPolicy == [sz \in PolicySizes |-> BufferSizePolicy([BufferSize |-> sz])]

\* the lists a caller's policy may return: every list of at most MaxPolicyLen entries
PolicyLists == UNION {[1..k -> StrategyValues] : k \in 0..MaxPolicyLen}

\* the policies of the callers: SetPolicy with a constant list, or the global policy
ConstPolicy(l) == [sz \in PolicySizes |-> l]
Policies == {ConstPolicy(l) : l \in PolicyLists} \cup {GetDefaultPolicy}

\* the buffer sizes a caller with this policy submits: a constant policy does not
\* look at the size, so one size stands for all
BufferSizesOf(policy) == IF policy = GetDefaultPolicy THEN BufferSizes ELSE {SizeThreshold}

\* policy(params)
ApplyPolicy(policy, params) == policy[params.BufferSize]

(***************************************************************************)
(* State.                                                                  *)
(***************************************************************************)
VARIABLES
    facade,      \* what the process's Writers and Readers were set up with: policy, p.a
    nextID,      \* var nextID int64
    freeIDs,     \* var freeIDs []int64
    mjobs,       \* Manager.jobs : JobID -> Job
    qat,         \* QatHandler.jobs
    iaa,         \* IAAHandler: jobs, readjobs, jobsLock
    isal,        \* ISALHandler: jobs, readjobs
    call,        \* the activation of SubmitWithPolicy: running, or the last one's result
    creators,    \* var mu sync.Mutex and the goroutines that call createJob on their own
    writer,      \* a Writer: w, closed, p
    reader,      \* a Reader: closed, p
    threads      \* goroutines inside the handlers and the Manager, and QatHandler.jobsLock

vars == <<facade, nextID, freeIDs, mjobs, qat, iaa, isal, call, creators, writer, reader, threads>>

\* Manager.strategies = GetStrategies(); nothing assigns it after initManager
strategies == strategyBank

\* handler identities: Manager.qat, .isal, .iaa, .fallback
H_QAT == "m.qat"
H_ISAL == "m.isal"
H_IAA == "m.iaa"
H_FALLBACK == "m.fallback"

getHandler(s) ==
    CASE s = QAT -> H_QAT
      [] s = IAA -> H_IAA
      [] s = ISAL -> H_ISAL
      [] OTHER -> H_FALLBACK

\* the state of all handlers as one record
Handlers == [qat |-> qat, iaa |-> iaa, isal |-> isal]

\* h.Request(job) on the handlers hs
Request(h, hs, job, o) ==
    CASE h = H_QAT ->
            LET r == QatRequest(hs.qat, job, o) IN [r EXCEPT !.st = [hs EXCEPT !.qat = r.st]]
      [] h = H_IAA ->
            LET r == IaaRequest(hs.iaa, job, o) IN [r EXCEPT !.st = [hs EXCEPT !.iaa = r.st]]
      [] h = H_ISAL ->
            LET r == IsalRequest(hs.isal, job, o) IN [r EXCEPT !.st = [hs EXCEPT !.isal = r.st]]
      [] OTHER ->
            LET r == DefaultRequest(NIL, job, o) IN [r EXCEPT !.st = hs]

\* h.Release(id) on the handlers hs
Release(h, hs, id, o) ==
    CASE h = H_QAT ->
            LET r == QatRelease(hs.qat, id, o) IN [r EXCEPT !.st = [hs EXCEPT !.qat = r.st]]
      [] h = H_IAA ->
            LET r == IaaRelease(hs.iaa, id, o) IN [r EXCEPT !.st = [hs EXCEPT !.iaa = r.st]]
      [] h = H_ISAL ->
            LET r == IsalRelease(hs.isal, id, o) IN [r EXCEPT !.st = [hs EXCEPT !.isal = r.st]]
      [] OTHER ->
            LET r == DefaultRelease(NIL, id, o) IN [r EXCEPT !.st = hs]

\* no Release is called
NoRelease(hs) == [st |-> hs, err |-> NoErr, blocked |-> FALSE]

\* createJob handing out the counter's value from before the increment
createJobOldValue(next) == [id |-> next, next |-> next + 1]

\* createJob: both branches add 1 to nextID; freeIDs is never consulted
createJob(next) == [id |-> next + 1, next |-> next + 1]

\* freeJobID
freeJobID(free, id) == Append(free, id)

\* SkipClass without its second branch (lines 786-788)
SkipClassNoInstallCase(err) == err = ErrNotAvailable \/ err = ErrUnsupported

\* lines 784-788: the errors after which the loop continues with the next candidate
SkipClass(err) == err = ErrNotAvailable \/ err = ErrUnsupported \/ err = ErrNotInstalled

\* HardError with the io.EOF test turned round
HardErrorEOFOnly(err) == err # NoErr /\ err = EOF

\* line 789: the errors that end the call at once
HardError(err) == err # NoErr /\ err # EOF

\* line 795: the Job is released and deregistered in this call
Completes(job, err) ==
    \/ job.dir = DECOMPRESS /\ err = EOF
    \/ job.dir = COMPRESS /\ err = NoErr

\* ContinuationHandler resolved anew instead of read from the Job
ContinuationHandlerFallback(currentJob) == "m.fallback"

\* line 755: the handler a continuation calls
ContinuationHandler(currentJob) == currentJob.h

\* ContinuationEnds on any error instead of on io.EOF alone
ContinuationEndsOnAnyError(err) == err # NoErr

\* line 756: the error of a continuation after which the Job is released
ContinuationEnds(err) == err = EOF

\* ExhaustedResult handing back the last handler error instead
ExhaustedResultLastError == [n |-> 0, err |-> ErrUnsupported]

\* line 802: what the call returns when the loop ran off the end of priority
ExhaustedResult == [n |-> 0, err |-> errNoWorkingStrategies]

\* line 752: jp names a registered Job and asks for decompression
IsContinuation(jobs, jp) == jp.id \in DOMAIN jobs /\ jp.dir = DECOMPRESS

(***************************************************************************)
(* Callers.  The facades hand SubmitWithPolicy their JobParams: a Writer   *)
(* has a sink and asks for COMPRESS, a Reader has a source and asks for    *)
(* DECOMPRESS; p.id is 0 at first and then the id the last call returned,  *)
(* so any id handed out so far may come back.  The algorithm and the       *)
(* policy are set on the facades before their first use (Apply, SetPolicy; *)
(* no SetPolicy: SubmitJob, the global policy).                            *)
(***************************************************************************)
JobParamsOf(a, dir, id) ==
    [a |-> a, dir |-> dir, id |-> id,
     w |-> IF dir = COMPRESS THEN SINK ELSE NIL,
     r |-> IF dir = DECOMPRESS THEN SOURCE ELSE NIL]

AllJobParams == {JobParamsOf(facade.a, dir, id) : dir \in {COMPRESS, DECOMPRESS}, id \in 0..nextID}

\* a Job: id, len(p), params (a, dir), w, r, and the handler h it is bound to
NoJob == [id |-> 0, size |-> 0, a |-> GZIP, dir |-> COMPRESS, w |-> NIL, r |-> NIL, h |-> NIL]

\* the activation record: what the call was given (job, priority; before and
\* nextBefore: the registry and nextID on entry), what it did (tried: the Requests
\* made, their errors and whether they constructed a session; released: the
\* handlers whose Release was called) and
\* what it returned (n, id, err); strategies: PolicyParameters.Strategies as the
\* policy was handed it
IdleCall ==
    [status |-> "idle", kind |-> "none", job |-> NoJob, priority |-> <<>>,
     idx |-> 0, tried |-> <<>>, released |-> <<>>, policyCalls |-> 0,
     before |-> EmptyMap, nextBefore |-> 0, strategies |-> <<>>,
     n |-> 0, id |-> 0, err |-> NoErr]

\* NewWriter(w): z.w is left nil, the sink goes to z.p.w.  live: the object has
\* been constructed; reset: Reset has been called on it
NewWriter(w) ==
    [live |-> TRUE, w |-> NIL, closed |-> FALSE, reset |-> FALSE,
     p |-> [a |-> GZIP, dir |-> COMPRESS, id |-> 0, w |-> w, r |-> NIL]]

\* NewReader(r)
NewReader(r) ==
    [live |-> TRUE, closed |-> FALSE, reset |-> FALSE,
     p |-> [a |-> GZIP, dir |-> DECOMPRESS, id |-> 0, w |-> NIL, r |-> r]]

\* no Writer, no Reader constructed: the callers are known by their JobParams only
NoWriter == [NewWriter(NIL) EXCEPT !.live = FALSE]
NoReader == [NewReader(NIL) EXCEPT !.live = FALSE]
NoFacades == writer = NoWriter /\ reader = NoReader

\* goroutines calling createJob concurrently
NumCreators == 2
Creators == 1..NumCreators

\* mu: the goroutine holding the mutex (0: free); pc, id: where each goroutine is
\* in createJob and its local id; returned: the ids createJob has returned to them
NoCreators ==
    [mu |-> 0, pc |-> [g \in Creators |-> "idle"], id |-> [g \in Creators |-> 0],
     returned |-> {}]

\* goroutines calling the handlers and the Manager concurrently
NumThreads == 2
Threads == 1..NumThreads

\* a goroutine: where it is (pc), the Job it works on, what its test of the
\* pool size said (full), the map access it is in the middle of (acc), and the
\* error of its last Request (err)
NoThread == [pc |-> "idle", job |-> NoJob, full |-> FALSE, acc |-> "none", err |-> NoErr]

\* mu: the goroutine holding QatHandler.jobsLock (0: free); fatal: the process has
\* died, of a panic or of the runtime's 'concurrent map' fatal error
NoThreads == [mu |-> 0, fatal |-> FALSE, th |-> [t \in Threads |-> NoThread]]

\* initManager and the package variables, before the first call
InitManager ==
    /\ creators = NoCreators
    /\ threads = NoThreads
    /\ nextID = 0
    /\ freeIDs = <<>>
    /\ mjobs = EmptyMap
    /\ qat = EmptyMap
    /\ iaa = [jobs |-> {}, readjobs |-> {}, lock |-> FALSE]
    /\ isal = [jobs |-> {}, readjobs |-> {}]
    /\ call = IdleCall

Init ==
    /\ facade \in [policy : Policies, a : Algorithms]
    /\ InitManager
    /\ NoFacades

\* no call is running: the caller may make the next one
Quiescent == call.status \in {"idle", "returned"}

\* the Job as the registry keeps it between calls: the next call overwrites p
\* before anything reads it, so the registry records no buffer
StoredJob(job) == [job EXCEPT !.size = 0]

SetHandlers(hs) == qat' = hs.qat /\ iaa' = hs.iaa /\ isal' = hs.isal

(***************************************************************************)
(* SubmitWithPolicy, lines 752-762: a continuation, one step.              *)
(***************************************************************************)
Continuation(jp, size, o) ==
    /\ Quiescent
    /\ IsContinuation(mjobs, jp)
    /\ \E currentJob \in {[mjobs[jp.id] EXCEPT !.size = size]} :   \* currentJob.p = p
       \E h \in {ContinuationHandler(currentJob)} :
       \E res \in {Request(h, Handlers, currentJob, o)} :
       \E rel \in {IF ~res.panic /\ ~res.blocked /\ ContinuationEnds(res.err)
                   THEN Release(currentJob.h, res.st, currentJob.id, o)
                   ELSE NoRelease(res.st)} :
       LET fr == [IdleCall EXCEPT !.kind = "cont", !.job = currentJob,
                                  !.before = mjobs, !.nextBefore = nextID, !.id = currentJob.id,
                                  !.tried = <<[h |-> h, err |-> res.err, created |-> res.created]>>]
       IN IF res.panic \/ res.blocked THEN
              /\ SetHandlers(res.st)
              /\ mjobs' = mjobs
              /\ call' = [fr EXCEPT !.status = IF res.panic THEN "panicked" ELSE "blocked",
                                    !.tried = <<[h |-> h, err |-> "none", created |-> FALSE]>>]
              /\ UNCHANGED <<facade, threads, writer, reader, creators, nextID, freeIDs>>
          ELSE IF ContinuationEnds(res.err) THEN
              IF rel.blocked THEN
                  /\ SetHandlers(rel.st)
                  /\ mjobs' = mjobs
                  /\ call' = [fr EXCEPT !.status = "blocked", !.released = <<currentJob.h>>]
                  /\ UNCHANGED <<facade, threads, writer, reader, creators, nextID, freeIDs>>
              ELSE
                  /\ SetHandlers(rel.st)
                  /\ mjobs' = MapDel(mjobs, currentJob.id)
                  /\ freeIDs' = freeJobID(freeIDs, currentJob.id)
                  /\ call' = [fr EXCEPT !.status = "returned", !.released = <<currentJob.h>>,
                                        !.n = res.n, !.err = res.err]
                  /\ UNCHANGED <<facade, threads, writer, reader, creators, nextID>>
          ELSE
              /\ SetHandlers(res.st)
              /\ mjobs' = mjobs
              /\ call' = [fr EXCEPT !.status = "returned", !.n = res.n, !.err = res.err]
              /\ UNCHANGED <<facade, threads, writer, reader, creators, nextID, freeIDs>>

(***************************************************************************)
(* SubmitWithPolicy, lines 764-775: a new operation is set up.             *)
(***************************************************************************)
SubmitNew(jp, size, policy) ==
    /\ Quiescent
    /\ creators.mu = 0                      \* createJob: mu.Lock()
    /\ ~IsContinuation(mjobs, jp)
    /\ LET params == [BufferSize |-> size, Strategies |-> strategies, JobParams |-> jp]
           cj == createJob(nextID)
           job == [NoJob EXCEPT !.id = cj.id, !.size = size, !.a = jp.a, !.dir = jp.dir,
                                !.w = jp.w, !.r = jp.r]
       IN /\ nextID' = cj.next
          /\ call' = [IdleCall EXCEPT !.status = "running", !.kind = "new",
                                      !.job = job, !.priority = ApplyPolicy(policy, params),
                                      !.idx = 1, !.policyCalls = 1, !.before = mjobs, !.nextBefore = nextID,
                                      !.strategies = params.Strategies,
                                      !.id = job.id]
    /\ UNCHANGED <<facade, threads, writer, reader, creators, freeIDs, mjobs, qat, iaa, isal>>

(***************************************************************************)
(* SubmitWithPolicy, lines 777-801: one turn of the loop over priority.    *)
(***************************************************************************)
TryCandidate(o) ==
    /\ call.status = "running"
    /\ call.idx <= Len(call.priority)
    /\ \E strategy \in {call.priority[call.idx]}, job \in {call.job} :
       \E h \in {getHandler(strategy)} :
       \E res \in {IF IsValid(strategy) THEN Request(h, Handlers, job, o)
                                        ELSE Ret(Handlers, 0, errInvalidStrategy)} :
       \E rel \in {IF ~res.panic /\ ~res.blocked /\ Completes(job, res.err)
                   THEN Release(h, res.st, job.id, o) ELSE NoRelease(res.st)} :
       LET bound == [job EXCEPT !.h = h]
           fr == [call EXCEPT !.tried = Append(@, [h |-> h, err |-> res.err, created |-> res.created])]
       IN IF ~IsValid(strategy) THEN
              /\ call' = [call EXCEPT !.status = "returned", !.n = 0,
                                      !.err = errInvalidStrategy]
              /\ UNCHANGED <<facade, threads, writer, reader, creators, nextID, freeIDs, mjobs, qat, iaa, isal>>
          ELSE IF res.panic \/ res.blocked THEN
              /\ SetHandlers(res.st)
              /\ call' = [call EXCEPT !.status = IF res.panic THEN "panicked" ELSE "blocked",
                                      !.tried = Append(@, [h |-> h, err |-> "none", created |-> FALSE])]
              /\ UNCHANGED <<facade, threads, writer, reader, creators, nextID, freeIDs, mjobs>>
          ELSE IF SkipClass(res.err) THEN
              /\ SetHandlers(res.st)
              /\ call' = [fr EXCEPT !.idx = @ + 1]
              /\ UNCHANGED <<facade, threads, writer, reader, creators, nextID, freeIDs, mjobs>>
          ELSE IF HardError(res.err) THEN
              /\ SetHandlers(res.st)
              /\ call' = [fr EXCEPT !.status = "returned", !.n = 0, !.err = res.err]
              /\ UNCHANGED <<facade, threads, writer, reader, creators, nextID, freeIDs, mjobs>>
          ELSE IF Completes(job, res.err) THEN
              IF rel.blocked THEN
                  /\ SetHandlers(rel.st)
                  /\ mjobs' = MapPut(mjobs, job.id, StoredJob(bound))
                  /\ call' = [fr EXCEPT !.status = "blocked", !.job = bound,
                                        !.released = <<h>>]
                  /\ UNCHANGED <<facade, threads, writer, reader, creators, nextID, freeIDs>>
              ELSE
                  /\ SetHandlers(rel.st)
                  /\ mjobs' = MapDel(MapPut(mjobs, job.id, StoredJob(bound)), job.id)
                  /\ freeIDs' = freeJobID(freeIDs, job.id)
                  /\ call' = [fr EXCEPT !.status = "returned", !.job = bound,
                                        !.released = <<h>>, !.n = res.n, !.err = res.err]
                  /\ UNCHANGED <<facade, threads, writer, reader, creators, nextID>>
          ELSE
              /\ SetHandlers(res.st)
              /\ mjobs' = MapPut(mjobs, job.id, StoredJob(bound))
              /\ call' = [fr EXCEPT !.status = "returned", !.job = bound,
                                    !.n = res.n, !.err = res.err]
              /\ UNCHANGED <<facade, threads, writer, reader, creators, nextID, freeIDs>>

(***************************************************************************)
(* SubmitWithPolicy, line 802: the loop ran off the end of priority.       *)
(***************************************************************************)
Exhausted ==
    /\ call.status = "running"
    /\ call.idx > Len(call.priority)
    /\ call' = [call EXCEPT !.status = "returned", !.n = ExhaustedResult.n,
                            !.err = ExhaustedResult.err]
    /\ UNCHANGED <<facade, threads, writer, reader, creators, nextID, freeIDs, mjobs, qat, iaa, isal>>

(***************************************************************************)
(* The general specification: one caller thread, any facade, any policy.   *)
(***************************************************************************)
DoContinuation ==
    \E jp \in AllJobParams, size \in BufferSizesOf(facade.policy) : \E o \in Outcomes(jp.dir) :
        Continuation(jp, size, o)

DoSubmitNew ==
    /\ nextID < MaxJobs
    /\ \E jp \in AllJobParams, size \in BufferSizesOf(facade.policy) :
           SubmitNew(jp, size, facade.policy)

DoTryCandidate == \E o \in Outcomes(call.job.dir) : TryCandidate(o)

Next == DoContinuation \/ DoSubmitNew \/ DoTryCandidate \/ Exhausted

Spec == Init /\ [][Next]_vars

(***************************************************************************)
(* Workloads pinned to one backend by the policy, as the tests pin them:   *)
(* gzip, a policy returning the one strategy, up to MaxPinnedJobs Jobs.    *)
(***************************************************************************)
InitPinned(s) ==
    /\ facade = [policy |-> ConstPolicy(<<s>>), a |-> GZIP]
    /\ InitManager
    /\ NoFacades

\* the engines never fail and no stream has reached its end yet: every Write,
\* Read and Close succeeds
FaultFree(dir) == {o \in Outcomes(dir) : o.setup = "ok" /\ o.io = "ok" /\ o.close = "ok"}

LoadContinuation ==
    \E jp \in AllJobParams, size \in BufferSizesOf(facade.policy) : \E o \in FaultFree(jp.dir) :
        Continuation(jp, size, o)

LoadSubmitNew ==
    /\ nextID < MaxPinnedJobs
    /\ \E jp \in AllJobParams, size \in BufferSizesOf(facade.policy) :
           SubmitNew(jp, size, facade.policy)

LoadTryCandidate == \E o \in FaultFree(call.job.dir) : TryCandidate(o)

\* with one supported strategy and no failing engine the loop never runs off the
\* end of priority: Exhausted is not enabled in these workloads
NextLoad == LoadContinuation \/ LoadSubmitNew \/ LoadTryCandidate

\* Writers and Readers on QAT, any number of Readers in mid-stream
SpecQatLoad == InitPinned(QAT) /\ [][NextLoad]_vars

\* Writers and Readers on IAA, any number of Readers in mid-stream
SpecIaaLoad == InitPinned(IAA) /\ [][NextLoad]_vars

(***************************************************************************)
(* TestMultipleQATDecompressString: Readers on QAT, one after another,     *)
(* each read until the call returns end-of-stream.  Every Read succeeds;   *)
(* the Close of the Release is an engine call like any other.              *)
(***************************************************************************)
ReadToEnd == {o \in Outcomes(DECOMPRESS) : o.setup = "ok" /\ o.io # "fail"}

ReadersContinuation ==
    \E id \in 0..nextID, size \in BufferSizesOf(facade.policy), o \in ReadToEnd :
        Continuation(JobParamsOf(facade.a, DECOMPRESS, id), size, o)

\* the next Reader starts when the one before it has reached end-of-stream
ReadersSubmitNew ==
    /\ nextID < MaxPinnedJobs
    /\ DOMAIN mjobs = {}
    /\ \E id \in 0..nextID, size \in BufferSizesOf(facade.policy) :
           SubmitNew(JobParamsOf(facade.a, DECOMPRESS, id), size, facade.policy)

ReadersTryCandidate == \E o \in ReadToEnd : TryCandidate(o)

NextReaders == ReadersContinuation \/ ReadersSubmitNew \/ ReadersTryCandidate

SpecQatReaders == InitPinned(QAT) /\ [][NextReaders]_vars

(***************************************************************************)
(* Properties.                                                             *)
(***************************************************************************)
\* the skip-class errors, as the specification lists them
SkipErrors == {"ErrNotAvailable", "ErrUnsupported", "ErrNotInstalled"}

\* an error a Request returned that is neither skip-class, nor success, nor end-of-stream
IsHardResult(e) == e \notin SkipErrors \cup {"nil", "io.EOF", "none"}

LastTried == call.tried[Len(call.tried)]

NewCall == call.kind = "new"
NewReturned == call.kind = "new" /\ call.status = "returned"
ContReturned == call.kind = "cont" /\ call.status = "returned"

HeldBy(id) ==
    {h \in {H_QAT, H_IAA, H_ISAL} :
        \/ h = H_QAT /\ id \in DOMAIN qat
        \/ h = H_IAA /\ id \in iaa.jobs \cup iaa.readjobs
        \/ h = H_ISAL /\ id \in isal.jobs \cup isal.readjobs}

\* C1: on a new operation the Requests go to the policy's candidates in list
\* order, one per candidate; only a skip-class error lets the loop go on; a
\* skip-class error is always followed by the next candidate (or by the end of
\* the list); the Job is bound to the first candidate whose Request returned
\* none of them, and nothing is requested after it.
C1_CandidatesInOrder ==
    NewCall =>
        /\ Len(call.tried) <= Len(call.priority)
        /\ \A i \in 1..Len(call.tried) :
              /\ IsValid(call.priority[i])
              /\ call.tried[i].h = getHandler(call.priority[i])
              /\ i < Len(call.tried) => call.tried[i].err \in SkipErrors
        /\ call.status = "running" =>
              /\ call.idx = Len(call.tried) + 1
              /\ \A i \in 1..Len(call.tried) : call.tried[i].err \in SkipErrors
        /\ call.job.h # NIL =>
              /\ Len(call.tried) > 0
              /\ call.job.h = LastTried.h
              /\ LastTried.err \notin SkipErrors
        /\ (call.status = "returned" /\ Len(call.tried) > 0) =>
              /\ LastTried.err \in {NoErr, EOF} =>
                    call.job.h = LastTried.h /\ call.err = LastTried.err
              /\ LastTried.err \in SkipErrors =>
                    \/ Len(call.tried) = Len(call.priority)
                    \/ ~IsValid(call.priority[Len(call.tried) + 1])

\* C1 witness: [X, Y, Z], X and Y returned skip-class errors, the call completed on Z
C1_Witness ==
    /\ NewReturned
    /\ Len(call.tried) = 3
    /\ call.tried[1].err \in SkipErrors
    /\ call.tried[2].err \in SkipErrors
    /\ call.tried[3].err = NoErr
    /\ call.job.h = getHandler(call.priority[3])
    /\ call.err = NoErr

\* C2: a Request of a new operation that returns a hard error is the last Request
\* of the call; the call returns that error and 0 bytes, and the registry is as
\* it was on entry (the Job is not in it).
C2_HardErrorPropagates ==
    NewCall =>
        \A i \in 1..Len(call.tried) :
            IsHardResult(call.tried[i].err) =>
                /\ i = Len(call.tried)
                /\ call.status = "returned"
                /\ call.err = call.tried[i].err
                /\ call.n = 0
                /\ call.id \notin DOMAIN mjobs
                /\ mjobs = call.before

\* C2 witness: a candidate returned an engine error, candidates were left untried
C2_Witness ==
    /\ NewReturned
    /\ Len(call.tried) > 0
    /\ LastTried.err = ErrEngine
    /\ Len(call.tried) < Len(call.priority)
    /\ call.err = ErrEngine

\* C3: when every candidate of the list (none, for the empty list) returned a
\* skip-class error the call returns errNoWorkingStrategies and 0 bytes, and the
\* registry is as it was on entry.
C3_ExhaustionError ==
    ( /\ NewReturned
      /\ Len(call.tried) = Len(call.priority)
      /\ \A i \in 1..Len(call.tried) : call.tried[i].err \in SkipErrors )
    => /\ call.err = "errNoWorkingStrategies"
       /\ call.n = 0
       /\ mjobs = call.before

\* C3 witness: three candidates, each returned a skip-class error
C3_Witness ==
    /\ NewReturned
    /\ Len(call.priority) = 3
    /\ Len(call.tried) = 3
    /\ \A i \in 1..3 : call.tried[i].err \in SkipErrors
    /\ call.err = errNoWorkingStrategies

\* C4: when a compress call returns success the Job's id is in no registry: not
\* in Manager.jobs and in no handler's per-job map.
C4_CompressReleased ==
    (NewReturned /\ call.job.dir = COMPRESS /\ call.err = NoErr)
    => /\ call.id \notin DOMAIN mjobs
       /\ HeldBy(call.id) = {}

\* every Job of the registry is stored under its own id, bound to a handler, and
\* carries an id that createJob has already handed out
RegistryWellFormed ==
    \A k \in DOMAIN mjobs :
        /\ mjobs[k].id = k
        /\ mjobs[k].h # NIL
        /\ k <= nextID

\* a step that starts a new decompress operation with the id the last call returned
RestartsAfter ==
    /\ call.status = "returned"
    /\ call.job.dir = DECOMPRESS
    /\ call'.kind = "new"
    /\ call'.status = "running"
    /\ call'.tried = <<>>
    /\ call'.job.dir = DECOMPRESS

\* C5: a call that continues a decompress operation returns the id it was given;
\* the Job stays registered unless the call returned end-of-stream, and is
\* deregistered when it did; a first call that succeeds without end-of-stream
\* leaves the Job registered; the operation started after end-of-stream gets an
\* id different from the old one and from every id registered.
C5_StableIdUntilEndOfStream ==
    /\ [](/\ RegistryWellFormed
          /\ ContReturned =>
                /\ call.id = call.job.id
                /\ call.id \in DOMAIN call.before
                /\ call.err # EOF => call.id \in DOMAIN mjobs /\ mjobs[call.id].id = call.id
                /\ call.err = EOF => call.id \notin DOMAIN mjobs
          /\ (NewReturned /\ call.job.dir = DECOMPRESS) =>
                /\ call.err = NoErr => call.id \in DOMAIN mjobs /\ call.id = call.job.id
                /\ call.err = EOF => call.id \notin DOMAIN mjobs)
    /\ [][RestartsAfter =>
             /\ call'.job.id # call.id
             /\ call'.job.id \notin DOMAIN mjobs
             /\ call'.job.id > nextID]_vars

\* C5 witness: a continuation returned end-of-stream, the Job left the registry
\* and another Job is still registered
C5_Witness ==
    /\ ContReturned
    /\ call.err = EOF
    /\ call.id \in DOMAIN call.before
    /\ call.id \notin DOMAIN mjobs
    /\ DOMAIN mjobs # {}

\* C6: a continuation evaluates no policy, allocates no id and issues exactly one
\* Request, to the handler stored in the Job; the only other handler call is a
\* Release on that same handler; the handler stored in a registered Job never changes.
C6_ContinuationFrame ==
    /\ [](call.kind = "cont" =>
            /\ call.policyCalls = 0
            /\ nextID = call.nextBefore
            /\ Len(call.tried) = 1
            /\ call.job.id \in DOMAIN call.before
            /\ call.tried[1].h = call.before[call.job.id].h
            /\ \A i \in 1..Len(call.released) : call.released[i] = call.tried[1].h)
    /\ [][\A k \in DOMAIN mjobs \cap DOMAIN mjobs' : mjobs'[k].h = mjobs[k].h]_vars

\* C6 witness: a continuation returned for a Job bound to a handler other than the fallback
C6_Witness ==
    /\ ContReturned
    /\ call.err = NoErr
    /\ call.tried[1].h = H_IAA
    /\ call.n > 0

\* a step in which QAT, already holding MAX_QAT_BINDINGS sessions, receives a
\* Request for a Job it does not hold
RequestOnFullQat ==
    /\ Cardinality(DOMAIN qat) >= MAX_QAT_BINDINGS
    /\ call.kind = "new" /\ call.status = "running"
    /\ call.job.id \notin DOMAIN qat
    /\ Len(call'.tried) = Len(call.tried) + 1
    /\ call'.tried[Len(call'.tried)].h = H_QAT

\* C7: a Request to a full QAT for a Job it does not hold returns ErrNotAvailable,
\* neither blocks nor crashes, and leaves the QAT map as it was.
C7_FullQatNotAvailable ==
    [][RequestOnFullQat =>
          /\ call'.status \notin {"panicked", "blocked"}
          /\ call'.tried[Len(call'.tried)].err = ErrNotAvailable
          /\ qat' = qat]_vars

\* C8: IAA never holds more than MAX_IAA_BINDINGS sessions, write and read together.
C8_IaaSessionsBounded ==
    Cardinality(iaa.jobs) + Cardinality(iaa.readjobs) <= MAX_IAA_BINDINGS

\* C9: decompress operations run one after another on QAT, each read to
\* end-of-stream: no call crashes or fails for lack of a binding, and between
\* operations the QAT map is empty.
C9_QatBindingFreedAtEndOfStream ==
    /\ call.status # "panicked"
    /\ call.err # errNoWorkingStrategies
    /\ (Quiescent /\ DOMAIN mjobs = {}) => DOMAIN qat = {}

\* C10: once IAA's Release has returned for a Job, IAA holds no session for it,
\* neither in the write map nor in the read map.
C10_IaaReleaseRemovesSession ==
    (call.status = "returned" /\ \E i \in 1..Len(call.released) : call.released[i] = H_IAA)
    => call.job.id \notin iaa.jobs \cup iaa.readjobs

(***************************************************************************)
(* The Handler interface called directly: Release(id) on a handler for an  *)
(* id it holds nothing for.  The handlers are reached through the exported *)
(* constructors and the Handler interface as well as through the Manager.  *)
(***************************************************************************)
\* the ids a handler holds a session or binding for
BoundIn(h, hs) ==
    CASE h = H_QAT -> {hs.qat[k].job : k \in DOMAIN hs.qat}
      [] h = H_IAA -> hs.iaa.jobs \cup hs.iaa.readjobs
      [] h = H_ISAL -> hs.isal.jobs \cup hs.isal.readjobs
      [] OTHER -> {}

AllHandlers == {H_QAT, H_IAA, H_ISAL, H_FALLBACK}

DirectRelease(h, id, o) ==
    /\ Quiescent
    /\ id \notin BoundIn(h, Handlers)
    /\ \E rel \in {Release(h, Handlers, id, o)} :
          /\ ~rel.blocked
          /\ SetHandlers(rel.st)
          /\ call' = [IdleCall EXCEPT !.status = "returned", !.kind = "release",
                                      !.before = mjobs, !.nextBefore = nextID,
                                      !.released = <<h>>, !.id = id, !.err = rel.err]
    /\ UNCHANGED <<facade, threads, writer, reader, creators, nextID, freeIDs, mjobs>>

\* the one engine call of a Release is Close
DoDirectRelease ==
    \E h \in AllHandlers, id \in 0..(nextID + 1), c \in {"ok", "fail"} :
        DirectRelease(h, id, OutcomeOf("ok", "ok", c))

NextRelease == Next \/ DoDirectRelease

SpecHandlerRelease == Init /\ [][NextRelease]_vars

\* C11: Release(id) on any of the four handlers, for an id the handler holds
\* nothing for, returns ErrJobNotFound and leaves every handler's state as it was.
C11_ReleaseUnboundJobNotFound ==
    [][(call'.kind = "release" /\ call' # call) =>
          /\ call'.err = ErrJobNotFound
          /\ UNCHANGED <<qat, iaa, isal>>]_vars

(***************************************************************************)
(* createJob called concurrently: NumCreators goroutines each run          *)
(* createJob (lines 713-730) step by step while the Manager serves Readers *)
(* and Writers pinned to QAT, at most MaxCreated ids in all.               *)
(***************************************************************************)
MaxCreated == 4

\* line 716: mu.Lock()
CreateLock(g) ==
    /\ creators.pc[g] = "idle"
    /\ creators.mu = 0
    /\ nextID < MaxCreated
    /\ creators' = [creators EXCEPT !.mu = g, !.pc[g] = "locked"]
    /\ UNCHANGED <<facade, threads, writer, reader, nextID, freeIDs, mjobs, qat, iaa, isal, call>>

\* lines 717-726: either branch, id = atomic.AddInt64(&nextID, 1)
CreateAdd(g) ==
    /\ creators.pc[g] = "locked"
    /\ \E cj \in {createJob(nextID)} :
          /\ nextID' = cj.next
          /\ creators' = [creators EXCEPT !.pc[g] = "added", !.id[g] = cj.id]
    /\ UNCHANGED <<facade, threads, writer, reader, freeIDs, mjobs, qat, iaa, isal, call>>

\* line 727: mu.Unlock()
CreateUnlock(g) ==
    /\ creators.pc[g] = "added"
    /\ creators' = [creators EXCEPT !.mu = 0, !.pc[g] = "unlocked"]
    /\ UNCHANGED <<facade, threads, writer, reader, nextID, freeIDs, mjobs, qat, iaa, isal, call>>

\* line 729: return &Job{id: JobID(id)}
CreateReturn(g) ==
    /\ creators.pc[g] = "unlocked"
    /\ creators' = [creators EXCEPT !.pc[g] = "idle", !.returned = @ \cup {creators.id[g]}]
    /\ UNCHANGED <<facade, threads, writer, reader, nextID, freeIDs, mjobs, qat, iaa, isal, call>>

DoCreateLock == \E g \in Creators : CreateLock(g)
DoCreateAdd == \E g \in Creators : CreateAdd(g)
DoCreateUnlock == \E g \in Creators : CreateUnlock(g)
DoCreateReturn == \E g \in Creators : CreateReturn(g)

\* the Manager's own calls; createJob and freeJobID in them take mu
ManagerContinuation == creators.mu = 0 /\ LoadContinuation
ManagerSubmitNew ==
    /\ nextID < MaxCreated
    /\ \E jp \in AllJobParams, size \in BufferSizesOf(facade.policy) :
           SubmitNew(jp, size, facade.policy)
ManagerTryCandidate == creators.mu = 0 /\ LoadTryCandidate

NextCreate ==
    \/ DoCreateLock \/ DoCreateAdd \/ DoCreateUnlock \/ DoCreateReturn
    \/ ManagerContinuation \/ ManagerSubmitNew \/ ManagerTryCandidate

SpecCreateJob == InitPinned(QAT) /\ [][NextCreate]_vars

\* the ids some holder refers to: returned to a goroutine, in a goroutine's hands,
\* registered in the Manager, held by a handler, or carried by the running call
IdsInHand == {creators.id[g] : g \in {x \in Creators : creators.pc[x] \in {"added", "unlocked"}}}
IdsInUse ==
    creators.returned \cup IdsInHand \cup DOMAIN mjobs \cup BoundIn(H_QAT, Handlers)
    \cup BoundIn(H_IAA, Handlers) \cup BoundIn(H_ISAL, Handlers)
    \cup (IF call.kind = "new" THEN {call.job.id} ELSE {})

\* a step in which createJob returns id to goroutine g
ReturnsTo(g) == creators.pc[g] = "unlocked" /\ creators'.pc[g] = "idle"

\* C12, as the code has it: ids are allocated in increasing order.  Every id
\* createJob produces is at least 1 and above every id produced before it, so
\* the id a call returns is new: not returned before, not registered, not held
\* by a handler; 0 names no registered Job.
C12_CreateJobAllocatesFreshIds ==
    /\ [](/\ 0 \notin IdsInUse
          /\ \A x \in IdsInUse : x <= nextID
          /\ \A g1, g2 \in Creators :
                (g1 # g2 /\ creators.pc[g1] \in {"added", "unlocked"}
                         /\ creators.pc[g2] \in {"added", "unlocked"})
                => creators.id[g1] # creators.id[g2])
    /\ [][/\ nextID' # nextID => nextID' > nextID /\ nextID' \notin IdsInUse
          /\ \A g \in Creators :
                /\ (creators.pc[g] = "locked" /\ creators'.pc[g] = "added")
                   => creators'.id[g] = nextID' /\ nextID' > nextID
                /\ ReturnsTo(g) =>
                      /\ creators.id[g] >= 1
                      /\ creators.id[g] \notin creators.returned
                      /\ creators.id[g] \notin DOMAIN mjobs
                      /\ HeldBy(creators.id[g]) = {}]_vars

\* C12 witness: both goroutines got an id from createJob while a Job is registered
C12_Witness ==
    /\ Cardinality(creators.returned) >= 2
    /\ DOMAIN mjobs # {}
    /\ DOMAIN qat # {}

\* C12 as stated: every id createJob returns is above every id returned earlier.
C12_ReturnedInIncreasingOrder ==
    [][\A g \in Creators :
          ReturnsTo(g) => \A x \in creators.returned : creators.id[g] > x]_vars

\* C13: no id of the free list is registered in the Manager or held by a handler.
C13_FreeIdsUnreferenced ==
    \A i \in 1..Len(freeIDs) :
        /\ freeIDs[i] \notin DOMAIN mjobs
        /\ HeldBy(freeIDs[i]) = {}

(***************************************************************************)
(* Policies whose list holds an entry that fails IsValid, at any position  *)
(* of a list of up to MaxInvalidListLen entries.                           *)
(***************************************************************************)
MaxInvalidListLen == 2

ListsWithInvalidEntry ==
    {l \in UNION {[1..k -> StrategyValues] : k \in 1..MaxInvalidListLen} :
        \E i \in 1..Len(l) : ~IsValid(l[i])}

InitInvalidEntry ==
    /\ facade \in [policy : {ConstPolicy(l) : l \in ListsWithInvalidEntry}, a : Algorithms]
    /\ InitManager
    /\ NoFacades

\* the loop reaches the invalid entry before it can run off the end of the list:
\* Exhausted is not enabled with these policies
NextInvalidEntry == DoContinuation \/ DoSubmitNew \/ DoTryCandidate

SpecInvalidEntry == InitInvalidEntry /\ [][NextInvalidEntry]_vars

\* C14: when the policy's list holds an invalid entry the call returns the
\* invalid-strategy error and no handler has received a Request or a Release.
C14_InvalidEntryRejected ==
    (NewCall /\ \E i \in 1..Len(call.priority) : ~IsValid(call.priority[i]))
    => /\ call.tried = <<>>
       /\ call.released = <<>>
       /\ call.status = "returned" => call.err = errInvalidStrategy

(***************************************************************************)
(* Writers and Readers that never call SetPolicy: SubmitJob, the global    *)
(* policy, with buffers of every size of PolicySizes.                      *)
(***************************************************************************)
InitDefaultPolicy ==
    /\ facade \in [policy : {GetDefaultPolicy}, a : Algorithms]
    /\ InitManager
    /\ NoFacades

\* a continuation evaluates no policy: one buffer size stands for all
DefaultContinuation ==
    \E jp \in AllJobParams, size \in {SizeThreshold} : \E o \in Outcomes(jp.dir) :
        Continuation(jp, size, o)

DefaultSubmitNew ==
    /\ nextID < MaxJobs
    /\ \E jp \in AllJobParams, size \in PolicySizes : SubmitNew(jp, size, facade.policy)

NextDefaultPolicy == DefaultContinuation \/ DefaultSubmitNew \/ DoTryCandidate \/ Exhausted

SpecDefaultPolicy == InitDefaultPolicy /\ [][NextDefaultPolicy]_vars

\* the list of a sequence in reverse order
Reversed(l) == [i \in 1..Len(l) |-> l[Len(l) + 1 - i]]

\* backends A, B and C by their algorithm coverage
IsBackendA(s) == s = QAT /\ QAT_ALGORITHMS = {DEFLATE, GZIP, ZSTD}
IsBackendB(s) == s = IAA /\ IAA_ALGORITHMS = {DEFLATE, GZIP}
IsBackendC(s) == s = ISAL /\ ISAL_ALGORITHMS = {GZIP}

\* C15, as the code has it: below the threshold the default policy returns
\* backend C (ISAL), then B (IAA), then A (QAT); at or above the threshold it
\* returns the reverse order, A, B, C.
C15_DefaultPolicyOrder ==
    NewCall =>
        /\ Len(call.priority) = 3
        /\ call.job.size < SizeThreshold =>
              /\ IsBackendC(call.priority[1])
              /\ IsBackendB(call.priority[2])
              /\ IsBackendA(call.priority[3])
        /\ call.job.size >= SizeThreshold =>
              call.priority = Reversed(GetDefaultPolicy[SizeThreshold - 1])

\* C15 witness: a call below the threshold and its list
C15_Witness ==
    /\ NewReturned
    /\ call.job.size = SizeThreshold - 1
    /\ call.priority = <<ISAL, IAA, QAT>>

\* C15 as stated: below the threshold A (QAT), then B (IAA), then C (ISAL); at
\* or above the threshold the reverse.
C15_AFirstBelowThreshold ==
    NewCall =>
        /\ call.job.size < SizeThreshold => call.priority = <<QAT, IAA, ISAL>>
        /\ call.job.size >= SizeThreshold => call.priority = <<ISAL, IAA, QAT>>

HardwareHandlers == {H_QAT, H_IAA, H_ISAL}

\* C17: through the default policy, when every hardware backend has returned a
\* skip-class error the software default handler is asked and the call does not
\* fail with errNoWorkingStrategies.
C17_SoftwareFallbackServes ==
    ( /\ NewReturned
      /\ \A h \in HardwareHandlers :
            \E i \in 1..Len(call.tried) :
                call.tried[i].h = h /\ call.tried[i].err \in SkipErrors )
    => /\ \E i \in 1..Len(call.tried) : call.tried[i].h = H_FALLBACK
       /\ call.err # errNoWorkingStrategies

(***************************************************************************)
(* Readers and Writers on IAA whose sink fails: every Read succeeds short  *)
(* of the end of the stream, every Write returns an error.                 *)
(***************************************************************************)
WriteFails(dir) ==
    {o \in Outcomes(dir) :
        o.setup = "ok" /\ o.close = "ok" /\ o.io = (IF dir = COMPRESS THEN "fail" ELSE "ok")}

FaultsContinuation ==
    \E jp \in AllJobParams, size \in BufferSizesOf(facade.policy) : \E o \in WriteFails(jp.dir) :
        Continuation(jp, size, o)

FaultsTryCandidate == \E o \in WriteFails(call.job.dir) : TryCandidate(o)

NextWriteFaults == FaultsContinuation \/ LoadSubmitNew \/ FaultsTryCandidate

SpecIaaWriteFaults == InitPinned(IAA) /\ [][NextWriteFaults]_vars

\* C18: no call of SubmitWithPolicy, new operation or continuation, returns
\* ErrNotAvailable, ErrNotInstalled or ErrUnsupported.
C18_SkipErrorsNeverReturned ==
    call.status = "returned" => call.err \notin SkipErrors

\* C19: a continuation served by a hardware handler constructs no decoder: it
\* reads from the session made at the Job's first Request.
C19_DecoderReused ==
    (call.kind = "cont" /\ Len(call.tried) = 1 /\ call.tried[1].h \in HardwareHandlers)
    => ~call.tried[1].created

\* C20: every compress Write that reaches ISAL runs on a session constructed in
\* that call, under an id createJob has just produced, and the session is gone
\* from the ISAL write map when the call returns: no session gets a second Write.
C20_IsalFreshSessionPerWrite ==
    (NewCall /\ call.job.dir = COMPRESS) =>
        \A i \in 1..Len(call.tried) :
            (call.tried[i].h = H_ISAL /\ call.tried[i].err \notin SkipErrors \cup {"none"}) =>
                /\ call.tried[i].created
                /\ call.job.id > call.nextBefore
                /\ call.job.id \notin DOMAIN call.before
                /\ call.status = "returned" => call.job.id \notin isal.jobs

\* C29: on a new operation, once the call has returned without registering the
\* Job, or once a later candidate has been bound, no handler whose Request
\* returned an error for the Job holds a session or a pool slot under its id.
C29_NoSessionLeftAfterError ==
    NewCall =>
        \A i \in 1..Len(call.tried) :
            ( /\ call.tried[i].err \notin {NoErr, EOF, "none"}
              /\ \/ call.status = "returned" /\ call.job.id \notin DOMAIN mjobs
                 \/ \E j \in (i+1)..Len(call.tried) : call.tried[j].err \in {NoErr, EOF} )
            => call.tried[i].h \notin HeldBy(call.job.id)

\* the strategy a hardware handler serves
StrategyOf(h) == CHOOSE s \in {QAT, ISAL, IAA} : getHandler(s) = h

\* the strategies whose handler answered ErrNotInstalled in the call on record
NotInstalledIn(c) ==
    {StrategyOf(c.tried[i].h) : i \in {k \in 1..Len(c.tried) : c.tried[k].err = ErrNotInstalled}}

\* C28: a strategy whose handler reported ErrNotInstalled during a call is not
\* among the PolicyParameters.Strategies handed to the policy by the next new
\* operation.
C28_NotInstalledStrategyRemoved ==
    [][ (call.status = "returned" /\ call'.status = "running" /\ call'.kind = "new")
        => \A i \in 1..Len(call'.strategies) : call'.strategies[i] \notin NotInstalledIn(call) ]_vars

\* the algorithms a handler has a codec for
CodecsOf(h) ==
    CASE h = H_QAT -> QAT_ALGORITHMS
      [] h = H_IAA -> IAA_ALGORITHMS
      [] h = H_ISAL -> ISAL_ALGORITHMS
      [] OTHER -> {GZIP, LZ4, ZSTD}

\* C27: a Request for an algorithm the handler has no codec for answers
\* ErrUnsupported (ErrNotInstalled when the handler is not installed at all),
\* and a Request that answers ErrUnsupported has constructed no session.
C27_UnsupportedBeforeAnyWork ==
    \A i \in 1..Len(call.tried) :
        /\ (call.kind \in {"new", "cont"} /\ call.job.a \notin CodecsOf(call.tried[i].h))
              => call.tried[i].err \in {ErrUnsupported, ErrNotInstalled}
        /\ call.tried[i].err = ErrUnsupported => ~call.tried[i].created

\* C27, first half alone: the answer for an algorithm without a codec
C27_NoCodecAnswersUnsupported ==
    \A i \in 1..Len(call.tried) :
        (call.kind \in {"new", "cont"} /\ call.job.a \notin CodecsOf(call.tried[i].h))
            => call.tried[i].err \in {ErrUnsupported, ErrNotInstalled}

(***************************************************************************)
(* Writers whose sink may answer a Write with io.EOF (an io.Pipe whose     *)
(* reader did CloseWithError(io.EOF)): the engines hand the sink's error   *)
(* back as the error of their Write.                                       *)
(***************************************************************************)
SinkOutcomes(dir) == Outcomes(dir) \cup {OutcomeOf("ok", "eof", "ok")}

SinkContinuation ==
    \E jp \in AllJobParams, size \in BufferSizesOf(facade.policy) : \E o \in SinkOutcomes(jp.dir) :
        Continuation(jp, size, o)

SinkTryCandidate == \E o \in SinkOutcomes(call.job.dir) : TryCandidate(o)

NextSinkErrors == SinkContinuation \/ DoSubmitNew \/ SinkTryCandidate \/ Exhausted

SpecSinkErrors == Init /\ [][NextSinkErrors]_vars

\* C23: whenever no call is in progress every Job in the registry is a
\* decompress Job bound to a handler; no compress Job is left registered.
C23_RegistryHoldsBoundDecompressJobs ==
    Quiescent =>
        \A id \in DOMAIN mjobs : mjobs[id].dir = DECOMPRESS /\ mjobs[id].h # NIL

(***************************************************************************)
(* The facades.  A process constructs one Writer on SINK or one Reader on  *)
(* SOURCE, with the default settings (GZIP, no SetPolicy: SubmitJob, the   *)
(* global policy), and calls its methods one after the other.  The frame   *)
(* records the last method call; its id is z.p.id, which only a call that  *)
(* reached the Manager assigns.                                            *)
(***************************************************************************)
InitFacades ==
    /\ facade = [policy |-> GetDefaultPolicy, a |-> GZIP]
    /\ InitManager
    /\ \/ writer = NewWriter(SINK) /\ reader = NoReader
       \/ writer = NoWriter /\ reader = NewReader(SOURCE)

\* the result of a method that does not reach the Manager
FacadeReturn(kind, err) ==
    [IdleCall EXCEPT !.status = "returned", !.kind = kind, !.err = err, !.id = call.id,
                     !.before = mjobs, !.nextBefore = nextID]

\* Writer.Write with the test of z.closed taken out
WriteRejectsNever(z) == FALSE

\* Writer.Write, line 36: if z.closed
WriteRejects(z) == z.closed

\* Writer.Write: SubmitJob(p, z.p), z.p.id being the id the last Write returned
WriterWrite(size) ==
    /\ writer.live
    /\ Quiescent
    /\ IF WriteRejects(writer)
       THEN /\ call' = FacadeReturn("Write", errClosed)
            /\ UNCHANGED <<facade, threads, writer, reader, creators, nextID, freeIDs, mjobs, qat, iaa, isal>>
       ELSE /\ nextID < MaxJobs
            /\ SubmitNew([writer.p EXCEPT !.id = call.id], size, facade.policy)

\* Writer.Close
WriterClose ==
    /\ writer.live
    /\ Quiescent
    /\ call' = FacadeReturn("Close", IF writer.closed THEN errClosed ELSE NoErr)
    /\ writer' = [writer EXCEPT !.closed = TRUE]
    /\ UNCHANGED <<facade, threads, reader, creators, nextID, freeIDs, mjobs, qat, iaa, isal>>

\* Writer.Reset(w): z.w = w; z.closed = false
WriterReset(w) ==
    /\ writer.live
    /\ Quiescent
    /\ call' = FacadeReturn("Reset", NoErr)
    /\ writer' = [writer EXCEPT !.w = w, !.closed = FALSE, !.reset = TRUE]
    /\ UNCHANGED <<facade, threads, reader, creators, nextID, freeIDs, mjobs, qat, iaa, isal>>

\* Reader.Read: SubmitJob(p, z.p); no test of z.closed
ReaderRead(size, o) ==
    /\ reader.live
    /\ LET jp == [reader.p EXCEPT !.id = call.id]
       IN \/ Continuation(jp, size, o)
          \/ nextID < MaxJobs /\ SubmitNew(jp, size, facade.policy)

\* Reader.Close
ReaderClose ==
    /\ reader.live
    /\ Quiescent
    /\ call' = FacadeReturn("Close", IF reader.closed THEN errClosed ELSE NoErr)
    /\ reader' = [reader EXCEPT !.closed = TRUE]
    /\ UNCHANGED <<facade, threads, writer, creators, nextID, freeIDs, mjobs, qat, iaa, isal>>

\* Reader.Reset(r): z.closed = false; z.p.r = r
ReaderReset(r) ==
    /\ reader.live
    /\ Quiescent
    /\ call' = FacadeReturn("Reset", NoErr)
    /\ reader' = [reader EXCEPT !.closed = FALSE, !.p.r = r, !.reset = TRUE]
    /\ UNCHANGED <<facade, threads, writer, creators, nextID, freeIDs, mjobs, qat, iaa, isal>>

DoWriterWrite == \E size \in BufferSizes : WriterWrite(size)
DoWriterReset == \E w \in {SINK, SINK2} : WriterReset(w)
DoReaderRead == \E size \in BufferSizes : \E o \in Outcomes(DECOMPRESS) : ReaderRead(size, o)
DoReaderReset == \E r \in {SOURCE, SOURCE2} : ReaderReset(r)

NextFacades ==
    \/ DoWriterWrite
    \/ WriterClose
    \/ DoWriterReset
    \/ DoReaderRead
    \/ ReaderClose
    \/ DoReaderReset
    \/ DoTryCandidate
    \/ Exhausted

SpecFacades == InitFacades /\ [][NextFacades]_vars

\* a method call of the Writer (or a step of a Write under way) takes place
WriterStep == writer.live /\ call' # call

\* C21: on a closed Writer a Write returns (0, errClosed) and leaves the
\* Manager and the handlers untouched, and a Close returns errClosed; a Close
\* on an open Writer returns nil and closes it; a Reset opens it, and a Write
\* on an open Writer is submitted to the Manager as a new compress Job and
\* never returns errClosed; the Writer goes through any number of Close/Reset
\* cycles.
C21_ClosedWriterRejects ==
    [][ /\ (WriterStep /\ writer.closed /\ call'.kind \notin {"Close", "Reset"})
            => /\ call'.kind = "Write" /\ call'.status = "returned"
               /\ call'.n = 0 /\ call'.err = errClosed
               /\ writer'.closed
               /\ UNCHANGED <<nextID, freeIDs, mjobs, qat, iaa, isal>>
        /\ (WriterStep /\ call'.kind = "Close")
            => /\ writer'.closed
               /\ call'.err = IF writer.closed THEN errClosed ELSE NoErr
        /\ (WriterStep /\ call'.kind = "Reset")
            => ~writer'.closed /\ call'.err = NoErr
        /\ (WriterStep /\ ~writer.closed /\ Quiescent /\ call'.kind \notin {"Close", "Reset"})
            => /\ call'.kind = "new" /\ call'.status = "running"
               /\ call'.job.dir = COMPRESS
               /\ call'.job.id = nextID + 1 /\ nextID' = nextID + 1
        /\ (WriterStep /\ call'.kind = "new") => call'.err # errClosed
      ]_vars

\* C21 witness: a Writer that served a Job and went through a Close/Reset cycle
\* is closed again and turns a Write away
C21_Witness ==
    /\ writer.live /\ writer.closed /\ writer.reset
    /\ call.kind = "Write" /\ call.err = errClosed
    /\ nextID = 1

\* C21: after a Reset the Writer serves its second Write in full
C21_WitnessReopened ==
    /\ writer.live /\ ~writer.closed /\ writer.reset
    /\ NewReturned /\ call.err = NoErr /\ call.n = call.job.size
    /\ call.job.id = 2

\* C22: once Reset was given a stream, a Write that follows is submitted with
\* that stream as the Job's sink and a Read that follows, new operation or
\* continuation, runs on a Job whose source is that stream.
C22_ResetRedirectsStream ==
    [][ /\ ( /\ writer.live /\ writer.reset
             /\ Quiescent /\ call' # call /\ call'.kind = "new" )
            => call'.job.w = writer.w
        /\ ( /\ reader.live /\ reader.reset
             /\ Quiescent /\ call' # call /\ call'.kind \in {"new", "cont"} )
            => call'.job.r = reader.p.r
      ]_vars

\* C22 for the Writer alone
C22_WriterResetRedirects ==
    [][ ( /\ writer.live /\ writer.reset
          /\ Quiescent /\ call' # call /\ call'.kind = "new" )
        => call'.job.w = writer.w ]_vars

\* C22 for the Reader alone
C22_ReaderResetRedirects ==
    [][ ( /\ reader.live /\ reader.reset
          /\ Quiescent /\ call' # call /\ call'.kind \in {"new", "cont"} )
        => call'.job.r = reader.p.r ]_vars

\* C22 for a Reader whose last operation had reached the end of its stream
C22_ReaderNewOperationRedirects ==
    [][ ( /\ reader.live /\ reader.reset
          /\ Quiescent /\ call' # call /\ call'.kind = "new" )
        => call'.job.r = reader.p.r ]_vars

\* C24: no Request returns with the pool lock of its handler held, and no
\* Request is left waiting for that lock for ever.  (QatHandler takes its
\* lock in newQatJob and gives it back by defer; IAAHandler.jobsLock is the
\* lock field of iaa.)
C24_PoolLockReleasedOnReturn ==
    /\ Quiescent => ~iaa.lock
    /\ call.status # "blocked"

\* C24, its consequence alone: no Request is left waiting for a pool lock
C24_NoRequestBlocked == call.status # "blocked"

(***************************************************************************)
(* Goroutines calling QatHandler.Request and QatHandler.Release            *)
(* concurrently, each Request for a decompress Job with an id of its own.  *)
(* One step per access to h.jobs and per operation on h.jobsLock.          *)
(* A Release goes to the oldest binding of the pool.                       *)
(***************************************************************************)
MaxPoolJobs == 10

\* sync.Mutex with Lock a no-op
QatLockIgnored(mu) == TRUE

\* h.jobsLock.Lock() can proceed
QatLockFree(mu) == mu = 0

Running(t, pc) == ~threads.fatal /\ threads.th[t].pc = pc

\* another goroutine is inside a section that writes h.jobs
QatWriterAt(t) == \E u \in Threads \ {t} : threads.th[u].pc \in {"insert", "delete"}

\* Request is called with a Job fresh from createJob.  Line 449: h.jobs[job.id]
\* is read without the lock and does not have the id; while another goroutine
\* writes the map the runtime may stop the process
PoolRequest(t) ==
    /\ Running(t, "idle")
    /\ nextID < MaxPoolJobs
    /\ \E cj \in {createJob(nextID)} :
          /\ nextID' = cj.next
          /\ \/ threads' = [threads EXCEPT
                     !.th[t] = [NoThread EXCEPT !.pc = "lock",
                                                !.job = [NoJob EXCEPT !.id = cj.id, !.dir = DECOMPRESS,
                                                                      !.r = SOURCE]]]
             \/ QatWriterAt(t) /\ threads' = [threads EXCEPT !.fatal = TRUE]
    /\ UNCHANGED <<facade, writer, reader, creators, freeIDs, mjobs, qat, iaa, isal, call>>

\* newQatJob, line 576: h.jobsLock.Lock()
PoolLock(t) ==
    /\ Running(t, "lock")
    /\ QatLockFree(threads.mu)
    /\ threads' = [threads EXCEPT !.mu = t, !.th[t].pc = "check"]
    /\ UNCHANGED <<facade, writer, reader, creators, nextID, freeIDs, mjobs, qat, iaa, isal, call>>

\* newQatJob, line 578: the test of len(h.jobs)
PoolCheck(t) ==
    /\ Running(t, "check")
    /\ threads' = [threads EXCEPT !.th[t].pc = "insert", !.th[t].full = QatPoolFull(qat)]
    /\ UNCHANGED <<facade, writer, reader, creators, nextID, freeIDs, mjobs, qat, iaa, isal, call>>

\* newQatJob, lines 579-610, and the deferred Unlock: it returns nil when the
\* pool was full or the constructor failed, and Request then panics at line 453;
\* otherwise Apply and Read follow (453-503) and the binding stays whatever they
\* return
PoolInsert(t, o) ==
    /\ Running(t, "insert")
    /\ LET job == threads.th[t].job
           isNil == threads.th[t].full \/ QatCtorFails(job, DIRECT, o)
           mu == IF threads.mu = t THEN 0 ELSE threads.mu
       IN /\ qat' = IF isNil THEN qat ELSE MapPut(qat, job.id, QatJobOf(job, DIRECT))
          /\ threads' = [threads EXCEPT !.mu = mu, !.fatal = isNil,
                                        !.th[t] = IF isNil THEN [@ EXCEPT !.pc = "panicked"]
                                                            ELSE NoThread]
    /\ UNCHANGED <<facade, writer, reader, creators, nextID, freeIDs, mjobs, iaa, isal, call>>

\* the oldest binding
OldestBinding == CHOOSE k \in DOMAIN qat : \A j \in DOMAIN qat : k <= j

\* Release(id), line 552: findJob ranges over h.jobs without the lock
PoolRelease(t) ==
    /\ Running(t, "idle")
    /\ DOMAIN qat # {}
    /\ \/ threads' = [threads EXCEPT
                 !.th[t] = [NoThread EXCEPT !.pc = "close", !.job = [NoJob EXCEPT !.id = OldestBinding]]]
       \/ QatWriterAt(t) /\ threads' = [threads EXCEPT !.fatal = TRUE]
    /\ UNCHANGED <<facade, writer, reader, creators, nextID, freeIDs, mjobs, qat, iaa, isal, call>>

\* lines 556-568: Close; its error ends the Release
PoolClose(t, o) ==
    /\ Running(t, "close")
    /\ threads' = [threads EXCEPT !.th[t] = IF EngineClose(o) # NoErr THEN NoThread
                                            ELSE [@ EXCEPT !.pc = "rlock"]]
    /\ UNCHANGED <<facade, writer, reader, creators, nextID, freeIDs, mjobs, qat, iaa, isal, call>>

\* line 569: h.jobsLock.Lock()
PoolReleaseLock(t) ==
    /\ Running(t, "rlock")
    /\ QatLockFree(threads.mu)
    /\ threads' = [threads EXCEPT !.mu = t, !.th[t].pc = "delete"]
    /\ UNCHANGED <<facade, writer, reader, creators, nextID, freeIDs, mjobs, qat, iaa, isal, call>>

\* lines 571-572: delete(h.jobs, id) and the deferred Unlock
PoolDelete(t) ==
    /\ Running(t, "delete")
    /\ qat' = MapDel(qat, threads.th[t].job.id)
    /\ threads' = [threads EXCEPT !.mu = IF threads.mu = t THEN 0 ELSE threads.mu,
                                  !.th[t] = NoThread]
    /\ UNCHANGED <<facade, writer, reader, creators, nextID, freeIDs, mjobs, iaa, isal, call>>

DoPoolRequest == \E t \in Threads : PoolRequest(t)
DoPoolLock == \E t \in Threads : PoolLock(t)
DoPoolCheck == \E t \in Threads : PoolCheck(t)
DoPoolInsert == \E t \in Threads : \E o \in Outcomes(DECOMPRESS) : PoolInsert(t, o)
DoPoolRelease == \E t \in Threads : PoolRelease(t)
DoPoolClose == \E t \in Threads : \E o \in {OutcomeOf("ok", "ok", c) : c \in {"ok", "fail"}} : PoolClose(t, o)
DoPoolReleaseLock == \E t \in Threads : PoolReleaseLock(t)
DoPoolDelete == \E t \in Threads : PoolDelete(t)

NextQatPool ==
    \/ DoPoolRequest
    \/ DoPoolLock
    \/ DoPoolCheck
    \/ DoPoolInsert
    \/ DoPoolRelease
    \/ DoPoolClose
    \/ DoPoolReleaseLock
    \/ DoPoolDelete

SpecQatPool == InitPinned(QAT) /\ [][NextQatPool]_vars

\* C25: under every interleaving of Requests and Releases on QAT the map
\* QatHandler.jobs has at most MAX_QAT_BINDINGS entries, and no goroutine is
\* between its test of the pool size and its insertion while another one is.
C25_QatPoolNeverExceedsCap ==
    /\ Cardinality(DOMAIN qat) <= MAX_QAT_BINDINGS
    /\ \A t, u \in Threads :
          (threads.th[t].pc \in {"check", "insert", "delete"} /\
           threads.th[u].pc \in {"check", "insert", "delete"}) => t = u

\* C25 witness: the pool holds 8 bindings, one goroutine has found it full under
\* the lock while the other one waits for the lock with a Job of its own
C25_Witness ==
    /\ Cardinality(DOMAIN qat) = MAX_QAT_BINDINGS
    /\ \E t, u \in Threads :
          /\ threads.th[t].pc = "insert" /\ threads.th[t].full
          /\ threads.th[u].pc = "lock"

(***************************************************************************)
(* Goroutines calling SubmitWithPolicy concurrently, each for its own      *)
(* Reader or Writer (policy [DEFAULT], GZIP: a handler without state).     *)
(* Manager has no mutex: an access to m.jobs begins in one step and ends   *)
(* in a later one, and nothing keeps another goroutine out in between.     *)
(* A read or a write that ends while another goroutine is writing the map  *)
(* is a data race: it has its effect, or none, or the runtime stops the    *)
(* process ('concurrent map read and map write', 'concurrent map writes'). *)
(***************************************************************************)
\* goroutine t is in the middle of an access to m.jobs that races with a write
\* or, being a write, with any access
RacesAt(t) ==
    \E u \in Threads \ {t} :
        /\ threads.th[t].acc # "none" /\ threads.th[u].acc # "none"
        /\ "write" \in {threads.th[t].acc, threads.th[u].acc}

\* the outcomes of a map access by t: "done", and when it races also "lost"
\* (a write without effect, a read that misses the entry) and "fatal"
AccessOutcomes(t) == IF RacesAt(t) THEN {"done", "lost", "fatal"} ELSE {"done"}

Died == [threads EXCEPT !.fatal = TRUE]

\* line 752: the call begins by reading m.jobs[jp.id]; jp.id is the id the
\* caller's last call returned, the caller being a Writer or a Reader for good
SubmitBegin(t, dir) ==
    /\ Running(t, "idle")
    /\ threads.th[t].job.id = 0 \/ threads.th[t].job.dir = dir
    /\ Len(freeIDs) < MaxJobs              \* bounds the run: freeIDs only grows
    /\ threads' = [threads EXCEPT !.th[t].pc = "lookup", !.th[t].acc = "read",
                                  !.th[t].job.dir = dir, !.th[t].job.a = facade.a,
                                  !.th[t].job.w = IF dir = COMPRESS THEN SINK ELSE NIL,
                                  !.th[t].job.r = IF dir = DECOMPRESS THEN SOURCE ELSE NIL]
    /\ UNCHANGED <<facade, writer, reader, creators, nextID, freeIDs, mjobs, qat, iaa, isal, call>>

\* lines 752-753 and 770-774: the read ends; a continuation goes on with the
\* registered Job, a new operation with a Job from createJob
SubmitLookup(t) ==
    /\ Running(t, "lookup")
    /\ \E out \in AccessOutcomes(t) :
       LET jp == threads.th[t].job
           present == out = "done" /\ IsContinuation(mjobs, jp)
       IN IF out = "fatal" THEN threads' = Died /\ UNCHANGED nextID
          ELSE IF present THEN
              /\ threads' = [threads EXCEPT !.th[t].pc = "cont", !.th[t].acc = "none",
                                            !.th[t].job = mjobs[jp.id]]
              /\ UNCHANGED nextID
          ELSE
              /\ nextID < MaxJobs
              /\ nextID' = createJob(nextID).next
              /\ threads' = [threads EXCEPT !.th[t].pc = "request", !.th[t].acc = "none",
                                            !.th[t].job.id = createJob(nextID).id,
                                            !.th[t].job.h = NIL]
    /\ UNCHANGED <<facade, writer, reader, creators, freeIDs, mjobs, qat, iaa, isal, call>>

\* lines 755-762: the continuation's Request; on io.EOF the delete begins
SubmitContinue(t, o) ==
    /\ Running(t, "cont")
    /\ LET res == DefaultRequest(NIL, threads.th[t].job, o)
       IN threads' = IF ContinuationEnds(res.err)
                     THEN [threads EXCEPT !.th[t].pc = "delete", !.th[t].acc = "write",
                                          !.th[t].err = res.err]
                     ELSE [threads EXCEPT !.th[t].pc = "idle", !.th[t].err = res.err]
    /\ UNCHANGED <<facade, writer, reader, creators, nextID, freeIDs, mjobs, qat, iaa, isal, call>>

\* lines 783-793: the Request of a new operation ([DEFAULT]: one candidate); a
\* skip-class error ends in errNoWorkingStrategies, a hard error is returned,
\* otherwise the write m.jobs[job.id] = job begins
SubmitRequest(t, o) ==
    /\ Running(t, "request")
    /\ LET res == DefaultRequest(NIL, threads.th[t].job, o)
       IN threads' = IF SkipClass(res.err)
                     THEN [threads EXCEPT !.th[t].pc = "idle", !.th[t].err = errNoWorkingStrategies]
                     ELSE IF HardError(res.err)
                     THEN [threads EXCEPT !.th[t].pc = "idle", !.th[t].err = res.err]
                     ELSE [threads EXCEPT !.th[t].pc = "register", !.th[t].acc = "write",
                                          !.th[t].job.h = H_FALLBACK, !.th[t].err = res.err]
    /\ UNCHANGED <<facade, writer, reader, creators, nextID, freeIDs, mjobs, qat, iaa, isal, call>>

\* lines 793-799: the write ends; when the Job completes the delete begins
SubmitRegister(t) ==
    /\ Running(t, "register")
    /\ \E out \in AccessOutcomes(t) :
       LET job == threads.th[t].job
       IN IF out = "fatal" THEN threads' = Died /\ UNCHANGED mjobs
          ELSE /\ mjobs' = IF out = "done" THEN MapPut(mjobs, job.id, StoredJob(job)) ELSE mjobs
               /\ threads' = IF Completes(job, threads.th[t].err)
                             THEN [threads EXCEPT !.th[t].pc = "delete", !.th[t].acc = "write"]
                             ELSE [threads EXCEPT !.th[t].pc = "idle", !.th[t].acc = "none"]
    /\ UNCHANGED <<facade, writer, reader, creators, nextID, freeIDs, qat, iaa, isal, call>>

\* lines 758-759 and 797-798: delete(m.jobs, id) ends, then freeJobID(id)
SubmitDelete(t) ==
    /\ Running(t, "delete")
    /\ \E out \in AccessOutcomes(t) :
       LET job == threads.th[t].job
       IN IF out = "fatal" THEN threads' = Died /\ UNCHANGED <<mjobs, freeIDs>>
          ELSE /\ mjobs' = IF out = "done" THEN MapDel(mjobs, job.id) ELSE mjobs
               /\ freeIDs' = freeJobID(freeIDs, job.id)
               /\ threads' = [threads EXCEPT !.th[t].pc = "idle", !.th[t].acc = "none"]
    /\ UNCHANGED <<facade, writer, reader, creators, nextID, qat, iaa, isal, call>>

DoSubmitBegin == \E t \in Threads, dir \in {COMPRESS, DECOMPRESS} : SubmitBegin(t, dir)
DoSubmitLookup == \E t \in Threads : SubmitLookup(t)
DoSubmitContinue == \E t \in Threads : \E o \in Outcomes(DECOMPRESS) : SubmitContinue(t, o)
DoSubmitRequest == \E t \in Threads : \E o \in Outcomes(threads.th[t].job.dir) : SubmitRequest(t, o)
DoSubmitRegister == \E t \in Threads : SubmitRegister(t)
DoSubmitDelete == \E t \in Threads : SubmitDelete(t)

NextConcurrentSubmit ==
    \/ DoSubmitBegin
    \/ DoSubmitLookup
    \/ DoSubmitContinue
    \/ DoSubmitRequest
    \/ DoSubmitRegister
    \/ DoSubmitDelete

SpecConcurrentSubmit == InitPinned(DEFAULT) /\ [][NextConcurrentSubmit]_vars

\* the registry a sequential run leaves behind: the Jobs of the Readers that are
\* bound and have not seen io.EOF
ExpectedRegistry ==
    {threads.th[t].job.id : t \in {u \in Threads :
        /\ threads.th[u].job.dir = DECOMPRESS
        /\ threads.th[u].job.h # NIL
        /\ threads.th[u].err # EOF}}

\* C26: no two goroutines are inside an access to Manager.jobs at the same
\* time with one of them writing, and when no call is running the registry is
\* the one a sequential run of the calls leaves behind.
C26_NoRaceOnRegistry ==
    /\ \A t \in Threads : ~RacesAt(t)
    /\ (~threads.fatal /\ \A t \in Threads : threads.th[t].pc = "idle")
          => DOMAIN mjobs = ExpectedRegistry

\* C26, the second half alone: the registry when no call is running
C26_RegistryAsSequential ==
    (~threads.fatal /\ \A t \in Threads : threads.th[t].pc = "idle")
        => DOMAIN mjobs = ExpectedRegistry

====
